---- MODULE Spec2Model ----
(***************************************************************************)
(* CppToPlantUML: the Converter (declaration extractor, type spelling      *)
(* reconstructor, relationship synthesis) and the PlantUmlWriter.          *)
(*                                                                         *)
(* Text is modelled as a sequence of one-character strings, so that        *)
(* partition('<'), rpartition('::') and the \b-delimited regex search are  *)
(* computed character by character as the Python code computes them.      *)
(* The literal parts of the format strings written to the document are     *)
(* kept as single multi-character atoms.                                   *)
(***************************************************************************)
EXTENDS Integers, Sequences, FiniteSets, TLC

VARIABLES
    tu,          \* children of the translation unit's root cursor (the input)
    settings,    \* Settings: title, icons_access_modifiers, class_writer.postfix_style
    classes,     \* Converter.classes: insertion-ordered dict, as a sequence of entities
    next_oid,    \* identity of the next CppClass object to be constructed
    document,    \* lines written to the output file by the last call of output
    edges,       \* the edge lines of the last output, by kind, in order of writing
    pc,          \* position of the converter: "new", "parsed", "written", "aborted"
    runs,        \* number of completed calls of translate
    extracted,   \* the model as it was when parse_classes last completed
    first_document, \* the document written by the first call of translate
    warned,      \* number of calls of warnings.warn during the last parse_classes
    cursor,      \* a declaration cursor handed to the type reconstructor
    type_result  \* what the type reconstructor did with it

vars == <<tu, settings, classes, next_oid, document, edges, pc, runs,
          extracted, first_document, warned, cursor, type_result>>

(***************************************************************************)
(* Bounds of the model.                                                    *)
(***************************************************************************)
\* number of top-level declarations of the input file
MaxTop == 3
\* number of raw tokens of a declaration handed to the type reconstructor
MaxTokens == 3
\* number of calls of translate on one Converter
MaxRuns == 2

(***************************************************************************)
(* Text.                                                                   *)
(***************************************************************************)
Letters ==
    {"a","b","c","d","e","f","g","h","i","j","k","l","m","n","o","p","q","r",
     "s","t","u","v","w","x","y","z","A","B","C","D","E","F","G","H","I","J",
     "K","L","M","N","O","P","Q","R","S","T","U","V","W","X","Y","Z"}

Digits == {"0","1","2","3","4","5","6","7","8","9"}

\* str.isalnum on one character
isalnum(c) == c \in Letters \cup Digits

\* the regex class \w on one character
IsWordChar(c) == isalnum(c) \/ c = "_"

\* s.partition(c)[0] for a one-character separator
PartitionHead(s, c) ==
    IF \E i \in 1..Len(s) : s[i] = c
    THEN LET i == CHOOSE j \in 1..Len(s) :
                      s[j] = c /\ \A k \in 1..(j - 1) : s[k] # c
         IN  SubSeq(s, 1, i - 1)
    ELSE s

\* s.rpartition('::')[2]
RPartitionScope(s) ==
    LET hits == {i \in 1..(Len(s) - 1) : s[i] = ":" /\ s[i + 1] = ":"}
    IN  IF hits = {} THEN s
        ELSE LET i == CHOOSE j \in hits : \A k \in hits : k <= j
             IN  SubSeq(s, i + 2, Len(s))

\* the regex assertion \b at position p of text (between text[p] and text[p+1])
WordBoundary(text, p) ==
    LET before == p >= 1 /\ IsWordChar(text[p])
        after  == p < Len(text) /\ IsWordChar(text[p + 1])
    IN  before # after

\* re.search(rf'\b{word}\b', text) is not None, for a word free of regex operators
WordSearch(word, text) ==
    \E p \in 0..(Len(text) - Len(word)) :
        /\ WordBoundary(text, p)
        /\ SubSeq(text, p + 1, p + Len(word)) = word
        /\ WordBoundary(text, p + Len(word))

\* ' '.join(texts)
RECURSIVE JoinSpace(_)
JoinSpace(texts) ==
    IF texts = <<>> THEN <<>>
    ELSE IF Len(texts) = 1 THEN texts[1]
    ELSE texts[1] \o <<" ">> \o JoinSpace(Tail(texts))

(***************************************************************************)
(* Spellings used by the inputs.                                           *)
(***************************************************************************)
Shape  == <<"S","h","a","p","e">>
Point  == <<"P","o","i","n","t">>
Circle == <<"C","i","r","c","l","e">>
Names  == {Shape, Point, Circle}

t_int       == <<"i","n","t">>
t_const     == <<"c","o","n","s","t">>
t_const_int == <<"c","o","n","s","t"," ","i","n","t">>
t_void      == <<"v","o","i","d">>
t_static    == <<"s","t","a","t","i","c">>
t_virtual   == <<"v","i","r","t","u","a","l">>
t_explicit  == <<"e","x","p","l","i","c","i","t">>
t_inline    == <<"i","n","l","i","n","e">>
t_friend    == <<"f","r","i","e","n","d">>
t_constexpr == <<"c","o","n","s","t","e","x","p","r">>
t_consteval == <<"c","o","n","s","t","e","v","a","l">>
t_constinit == <<"c","o","n","s","t","i","n","i","t">>
t_T         == <<"T">>
t_geo       == <<"g","e","o">>
t_scope     == <<":",":">>
t_lt        == <<"<">>
t_gt        == <<">">>
t_star      == <<"*">>
t_eq        == <<"=">>
t_zero      == <<"0">>
t_lparen    == <<"(">>
t_rparen    == <<")">>
t_attr      == <<"[","[","x","]","]">>

\* the template-argument text of a display name
Templ(name, arg) == name \o <<"<">> \o arg \o <<">">>

(***************************************************************************)
(* Converter: cursor kinds.                                                *)
(***************************************************************************)
CLASS_KINDS  == {"CLASS_DECL", "STRUCT_DECL", "CLASS_TEMPLATE", "ENUM_DECL"}
METHOD_KINDS == {"CXX_METHOD", "FUNCTION_TEMPLATE", "CONSTRUCTOR", "FUNCTION_DECL"}
VAR_KINDS    == {"FIELD_DECL", "VAR_DECL"}

(***************************************************************************)
(* Type spelling reconstruction.  An outcome is the returned text, whether *)
(* warnings.warn was called, and the exception raised, if any.             *)
(***************************************************************************)
Returned(type_) == [exc |-> "none", warned |-> FALSE, type |-> type_]
Warned(type_)   == [exc |-> "none", warned |-> TRUE, type |-> type_]
Raised(e)       == [exc |-> e, warned |-> FALSE, type |-> <<>>]

\* re.fullmatch(r'\[\[.*?]]', t)
IsAttribute(t) ==
    /\ Len(t) >= 4
    /\ t[1] = "[" /\ t[2] = "["
    /\ t[Len(t) - 1] = "]" /\ t[Len(t)] = "]"

\* exclude.fullmatch of _parse_var_type
ExcludeVar(t) ==
    \/ t = t_static
    \/ IsAttribute(t)
    \/ t \in {t_constexpr, t_consteval, t_constinit}

\* exclude.fullmatch of _parse_function_type
ExcludeFunction(t) ==
    \/ t \in {t_static, t_virtual, t_explicit, t_inline, t_friend}
    \/ IsAttribute(t)
    \/ t \in {t_constexpr, t_consteval, t_constinit}

\* list.index(x, lo, hi) with 0-based positions; -1 stands for ValueError
Index0(seq, x, lo, hi) ==
    LET top  == IF hi < Len(seq) THEN hi ELSE Len(seq)
        hits == {i \in lo..(top - 1) : seq[i + 1] = x}
    IN  IF hits = {} THEN -1
        ELSE CHOOSE i \in hits : \A k \in hits : i <= k

\* the loop joining tokens[0:name_index] by the alphanumeric-spacing rule
RECURSIVE JoinTokens(_, _, _)
JoinTokens(type_, toks, i) ==
    IF i > Len(toks) THEN type_
    ELSE JoinTokens(
             type_ \o (IF isalnum(type_[Len(type_)]) /\ isalnum(toks[i][1])
                       THEN <<" ">> ELSE <<>>)
                   \o toks[i],
             toks, i + 1)

\* type_ = tokens[0]; for t in tokens[1:name_index]: ...
JoinedType(tokens, name_index) ==
    JoinTokens(tokens[1],
               SubSeq(tokens, 2, IF name_index < Len(tokens) THEN name_index
                                 ELSE Len(tokens)),
               1)

\* return type_.rpartition('::')[2] after the loop, name_index being the
\* result of tokens.index
TypeUpTo(tokens, name_index) ==
    IF name_index < 0 THEN Raised("ValueError")
    ELSE Returned(RPartitionScope(JoinedType(tokens, name_index)))

\* '>' in tokens
HasRightAngle(tokens) == \E i \in 1..Len(tokens) : tokens[i] = t_gt

\* tokens.index('=') if '=' in tokens else len(tokens)
AssignIndex(tokens) ==
    IF \E i \in 1..Len(tokens) : tokens[i] = t_eq
    THEN Index0(tokens, t_eq, 0, Len(tokens))
    ELSE Len(tokens)

\* positions of '>' in tokens[:assign_index][::-1], 0-based
ReversedAngleHits(tokens, assign_index) ==
    {j \in 0..(assign_index - 1) : tokens[assign_index - j] = t_gt}

\* len(tokens) - 1 - tokens[:assign_index][::-1].index('>'), or -1
RightAngleIndex(tokens, hits) ==
    IF hits = {} THEN -1
    ELSE Len(tokens) - 1 - (CHOOSE j \in hits : \A k \in hits : j <= k)

\* the branch of _parse_var_type that rebuilds the type from the tokens
VarTypeFromTokens(c, tokens, assign_index) ==
    IF HasRightAngle(tokens) /\ ReversedAngleHits(tokens, assign_index) = {}
    THEN Raised("ValueError")
    ELSE TypeUpTo(tokens,
             Index0(tokens, c.displayname,
                    RightAngleIndex(tokens,
                        IF HasRightAngle(tokens)
                        THEN ReversedAngleHits(tokens, assign_index) ELSE {}) + 1,
                    assign_index))

\* _parse_var_type after the tokens were filtered
VarTypeOf(c, tokens) ==
    IF c.type_spelling \in {t_int, t_const_int}
    THEN IF tokens = <<>> THEN Raised("IndexError")
         ELSE IF tokens[1] # t_int
         THEN VarTypeFromTokens(c, tokens, AssignIndex(tokens))
         ELSE Returned(RPartitionScope(c.type_spelling))
    ELSE Returned(RPartitionScope(c.type_spelling))

_parse_var_type(c) ==
    VarTypeOf(c, SelectSeq(c.tokens, LAMBDA t : ~ExcludeVar(t)))

\* the branch of _parse_function_type that rebuilds the type from the
\* tokens, paren being the result of tokens.index('(')
FunctionTypeFromTokens(tokens, paren) ==
    IF paren < 0 THEN Raised("ValueError")
    ELSE IF paren - 1 <= 0 THEN Warned(t_int)
    ELSE TypeUpTo(tokens, paren - 1)

\* _parse_function_type after the tokens were filtered
FunctionTypeOf(c, tokens) ==
    IF c.result_type = t_int
    THEN IF tokens = <<>> THEN Raised("IndexError")
         ELSE IF tokens[1] # t_int
         THEN FunctionTypeFromTokens(tokens, Index0(tokens, t_lparen, 0, Len(tokens)))
         ELSE Returned(RPartitionScope(c.result_type))
    ELSE Returned(RPartitionScope(c.result_type))

_parse_function_type(c) ==
    IF c.kind \notin METHOD_KINDS THEN Raised("ValueError")
    ELSE FunctionTypeOf(c, SelectSeq(c.tokens, LAMBDA t : ~ExcludeFunction(t)))

(***************************************************************************)
(* The front-end's cursors.  Every cursor carries the same attributes;     *)
(* those its kind does not have keep their default.                        *)
(***************************************************************************)
NoCursor ==
    [kind |-> "NONE", displayname |-> <<>>, spelling |-> <<>>,
     is_definition |-> TRUE, in_file |-> TRUE, children |-> <<>>,
     type_spelling |-> <<>>, result_type |-> <<>>, tokens |-> <<>>,
     access_specifier |-> "PUBLIC", is_deleted |-> FALSE,
     is_static_method |-> FALSE, arguments |-> <<>>]

ClassCursor(kind, displayname, spelling, is_definition, children) ==
    [NoCursor EXCEPT !.kind = kind, !.displayname = displayname,
                     !.spelling = spelling, !.is_definition = is_definition,
                     !.children = children]

BaseCursor(displayname) ==
    [NoCursor EXCEPT !.kind = "CXX_BASE_SPECIFIER", !.displayname = displayname,
                     !.spelling = displayname]

VarCursor(kind, name, type_spelling, tokens, access) ==
    [NoCursor EXCEPT !.kind = kind, !.displayname = name, !.spelling = name,
                     !.type_spelling = type_spelling, !.tokens = tokens,
                     !.access_specifier = access]

MethodCursor(kind, name, result_type, tokens, access, arguments) ==
    [NoCursor EXCEPT !.kind = kind, !.displayname = name, !.spelling = name,
                     !.result_type = result_type, !.tokens = tokens,
                     !.access_specifier = access, !.arguments = arguments]

(***************************************************************************)
(* objects.py: the model entities.                                         *)
(***************************************************************************)
\* AccessSpecifier.symbol
AccessSymbol(a) ==
    CASE a = "PUBLIC" -> "+"
      [] a = "PROTECTED" -> "#"
      [] a = "PRIVATE" -> "-"

CppVar(name, type_) == [name |-> name, type |-> type_]

CppField(var, access, is_static) ==
    [var |-> var, access_specifier |-> access, is_static |-> is_static]

CppMethod(name, return_type, access, is_static, is_abstract, is_constructor) ==
    [name |-> name, return_type |-> return_type, access_specifier |-> access,
     args |-> <<>>, is_static |-> is_static, is_abstract |-> is_abstract,
     is_constructor |-> is_constructor]

\* a CppClass object: its dataclass fields, its Python class, the names its
\* cached_property descriptors have stored in its __dict__, and its identity
CppClass(name, oid) ==
    [name |-> name, base_classes |-> <<>>, fields |-> <<>>, methods |-> <<>>,
     is_enum |-> FALSE, type |-> "CppClass", cached |-> {}, oid |-> oid]

CppEnum(name, oid) ==
    [CppClass(name, oid) EXCEPT !.is_enum = TRUE, !.type = "CppEnum"]

\* the dataclass fields of an entity, which are what __eq__ compares
DataFields(e) ==
    [name |-> e.name, base_classes |-> e.base_classes, fields |-> e.fields,
     methods |-> e.methods, is_enum |-> e.is_enum]

\* CppClass.__eq__ as generated by dataclasses
ClassEq(a, b) == a.type = b.type /\ DataFields(a) = DataFields(b)

is_abstract(e) ==
    IF e.type = "CppEnum" THEN FALSE
    ELSE \E i \in 1..Len(e.methods) : e.methods[i].is_abstract

is_interface(e) ==
    IF e.type = "CppEnum" THEN FALSE
    ELSE /\ \A i \in 1..Len(e.methods) :
                e.methods[i].is_abstract \/ e.methods[i].is_static
         /\ e.fields = <<>>

pure_name(e) == PartitionHead(e.name, "<")

\* field.type
FieldType(f) == f.var.type

(***************************************************************************)
(* Converter.classes as an insertion-ordered dict keyed by entity name.    *)
(***************************************************************************)
Keys(d) == {d[i].name : i \in 1..Len(d)}

Lookup(d, key) == d[CHOOSE i \in 1..Len(d) : d[i].name = key]

\* d[e.name] = e: a present key keeps its position
DictSet(d, e) ==
    IF e.name \in Keys(d)
    THEN [i \in 1..Len(d) |-> IF d[i].name = e.name THEN e ELSE d[i]]
    ELSE Append(d, e)

\* cls.base_classes.append(x), cls.fields.append(x) and cls.methods.append(x)
\* for the object oid, which the dict holds unless its key was assigned again
AppendBase(d, oid, x) ==
    [i \in 1..Len(d) |->
        IF d[i].oid = oid THEN [d[i] EXCEPT !.base_classes = Append(@, x)] ELSE d[i]]

AppendField(d, oid, x) ==
    [i \in 1..Len(d) |->
        IF d[i].oid = oid THEN [d[i] EXCEPT !.fields = Append(@, x)] ELSE d[i]]

AppendMethod(d, oid, x) ==
    [i \in 1..Len(d) |->
        IF d[i].oid = oid THEN [d[i] EXCEPT !.methods = Append(@, x)] ELSE d[i]]

(***************************************************************************)
(* Converter: extraction.  The walk threads the dict, the object counter,  *)
(* the number of warnings and the exception raised, if any.                *)
(***************************************************************************)
_is_method_abstract(c) ==
    /\ Len(c.tokens) >= 2
    /\ c.tokens[Len(c.tokens) - 1] = t_eq
    /\ c.tokens[Len(c.tokens)] = t_zero

\* the CppField built by _parse_field from the outcome r of the type
\* reconstruction
FieldOf(c, r) ==
    IF r.exc # "none" THEN r
    ELSE [r EXCEPT !.type =
             CppField(CppVar(c.displayname, r.type), c.access_specifier,
                      \E i \in 1..Len(c.tokens) : c.tokens[i] = t_static)]

\* the outcome of _parse_field carries the CppField in place of the type
_parse_field(c) ==
    IF c.kind \notin VAR_KINDS THEN Raised("ValueError")
    ELSE FieldOf(c, _parse_var_type(c))

\* method.args.append(CppVar(arg.displayname, cls._parse_var_type(arg))),
\* r being the outcome of the type reconstruction
ArgAppended(acc, arg, r) ==
    IF r.exc # "none" THEN [acc EXCEPT !.exc = r.exc]
    ELSE [acc EXCEPT !.type.args = Append(@, CppVar(arg.displayname, r.type))]

\* for arg in cursor.get_arguments(), from argument i on
RECURSIVE ParseArguments(_, _, _)
ParseArguments(acc, arguments, i) ==
    IF i > Len(arguments) \/ acc.exc # "none" THEN acc
    ELSE ParseArguments(
             ArgAppended(acc, arguments[i], _parse_var_type(arguments[i])),
             arguments, i + 1)

\* the CppMethod of a method that is no constructor, r being the outcome of
\* _parse_function_type
MethodOf(c, r) ==
    IF r.exc # "none" THEN r
    ELSE [r EXCEPT !.type =
             CppMethod(c.spelling, r.type, c.access_specifier,
                       c.is_static_method, _is_method_abstract(c), FALSE)]

\* the outcome of _parse_method carries the CppMethod in place of the type
_parse_method(c) ==
    IF c.kind \notin METHOD_KINDS THEN Raised("ValueError")
    ELSE ParseArguments(
             IF c.kind = "CONSTRUCTOR"
             THEN Returned(CppMethod(c.spelling, t_void, c.access_specifier,
                                     FALSE, FALSE, TRUE))
             ELSE MethodOf(c, _parse_function_type(c)),
             c.arguments, 1)

\* cls.fields.append(self._parse_field(node)), r being _parse_field's outcome
FieldAppended(st, oid, r) ==
    IF r.exc # "none" THEN [st EXCEPT !.exc = r.exc]
    ELSE [st EXCEPT !.classes = AppendField(@, oid, r.type)]

\* cls.methods.append(self._parse_method(node)), r being _parse_method's outcome
MethodAppended(st, oid, r) ==
    IF r.exc # "none" THEN [st EXCEPT !.exc = r.exc]
    ELSE [st EXCEPT !.classes = AppendMethod(@, oid, r.type),
                    !.warned = @ + (IF r.warned THEN 1 ELSE 0)]

RECURSIVE _parse_class(_, _)

\* the loop over cursor.get_children() in _parse_class from child i on, cls
\* being the object oid
RECURSIVE ParseChildren(_, _, _, _)
ParseChildren(st, oid, children, i) ==
    IF i > Len(children) \/ st.exc # "none" THEN st
    ELSE ParseChildren(
             IF children[i].kind \in CLASS_KINDS THEN _parse_class(st, children[i])
             ELSE IF children[i].kind = "CXX_BASE_SPECIFIER"
             THEN [st EXCEPT !.classes =
                      AppendBase(@, oid, RPartitionScope(children[i].displayname))]
             ELSE IF children[i].kind \in VAR_KINDS
             THEN FieldAppended(st, oid, _parse_field(children[i]))
             ELSE IF children[i].kind \in METHOD_KINDS
             THEN IF children[i].is_deleted THEN st
                  ELSE MethodAppended(st, oid, _parse_method(children[i]))
             ELSE st,
             oid, children, i + 1)

_parse_class(st, c) ==
    IF st.exc # "none" THEN st
    ELSE IF c.kind \notin CLASS_KINDS THEN [st EXCEPT !.exc = "ValueError"]
    ELSE IF c.kind = "ENUM_DECL"
    THEN [st EXCEPT !.classes = DictSet(@, CppEnum(c.displayname, st.next_oid)),
                    !.next_oid = @ + 1]
    ELSE IF /\ c.displayname # c.spelling
            /\ \E name \in Keys(st.classes) : PartitionHead(name, "<") = c.spelling
    THEN st
    ELSE ParseChildren(
             [st EXCEPT !.classes = DictSet(@, CppClass(c.displayname, st.next_oid)),
                        !.next_oid = @ + 1],
             st.next_oid, c.children, 1)

\* the loop of parse_classes over the root's children, from child i on
RECURSIVE ParseTopLevel(_, _, _)
ParseTopLevel(st, nodes, i) ==
    IF i > Len(nodes) \/ st.exc # "none" THEN st
    ELSE ParseTopLevel(
             IF nodes[i].in_file /\ nodes[i].kind \in CLASS_KINDS
                    /\ nodes[i].is_definition
             THEN _parse_class(st, nodes[i])
             ELSE st,
             nodes, i + 1)

parse_classes(d, oid, nodes) ==
    ParseTopLevel([classes |-> d, next_oid |-> oid, warned |-> 0, exc |-> "none"],
                  nodes, 1)

(***************************************************************************)
(* writers.py: PlantUmlWriter.  A block is the sequence of the lines of    *)
(* the returned string.                                                    *)
(***************************************************************************)
var_to_string(var, postfix_style) ==
    IF postfix_style THEN var.name \o <<": ">> \o var.type
    ELSE var.type \o <<" ">> \o var.name

\* ', '.join(map(self.var_to_string, method.args))
RECURSIVE JoinArgs(_, _)
JoinArgs(args, postfix_style) ==
    IF args = <<>> THEN <<>>
    ELSE IF Len(args) = 1 THEN var_to_string(args[1], postfix_style)
    ELSE var_to_string(args[1], postfix_style) \o <<", ">>
             \o JoinArgs(Tail(args), postfix_style)

\* HeaderLine without the interface case
HeaderLineNoInterface(e) ==
    (IF is_abstract(e) THEN <<"abstract ">> ELSE <<>>)
        \o <<"class ">> \o e.name \o <<" {">>

HeaderLine(e) ==
    IF is_interface(e) THEN <<"interface ">> \o e.name \o <<" {">>
    ELSE (IF is_abstract(e) THEN <<"abstract ">> ELSE <<>>)
             \o <<"class ">> \o e.name \o <<" {">>

FieldLine(f, postfix_style) ==
    <<"\t", AccessSymbol(f.access_specifier), " ">>
        \o (IF f.is_static THEN <<"{static} ">> ELSE <<>>)
        \o var_to_string(f.var, postfix_style)

MethodLine(m, postfix_style) ==
    LET access    == <<"\t", AccessSymbol(m.access_specifier), " ">>
        static    == IF m.is_static THEN <<"{static} ">> ELSE <<>>
        abstract  == IF m.is_abstract THEN <<"{abstract} ">> ELSE <<>>
        args      == JoinArgs(m.args, postfix_style)
    IN  IF postfix_style
        THEN access \o static \o abstract \o m.name \o <<"(">> \o args
                 \o <<"): ">> \o m.return_type
        ELSE access \o static \o abstract \o m.return_type \o <<" ">> \o m.name
                 \o <<"(">> \o args \o <<")">>

write(e, postfix_style) ==
    <<HeaderLine(e)>>
        \o [i \in 1..Len(e.fields) |-> FieldLine(e.fields[i], postfix_style)]
        \o (IF e.fields # <<>> /\ e.methods # <<>> THEN << <<>> >> ELSE <<>>)
        \o [i \in 1..Len(e.methods) |-> MethodLine(e.methods[i], postfix_style)]
        \o (IF e.fields = <<>> /\ e.methods = <<>> THEN << <<>> >> ELSE <<>>)
        \o << <<"}">> >>

(***************************************************************************)
(* Converter.output: the three relationship loops.  An edge keeps the      *)
(* keys of the entities it was written for beside the pure names and the   *)
(* line written.                                                           *)
(***************************************************************************)
Edge(user, other, src, tgt, realization, line) ==
    [user |-> user, other |-> other, src |-> src, tgt |-> tgt,
     realization |-> realization, line |-> line]

\* BaseEdges writing every edge as a generalization
BaseEdgesAllGeneralization(d, cls) ==
    [j \in 1..Len(cls.base_classes) |->
        LET base   == cls.base_classes[j]
            target == PartitionHead(base, "<")
        IN  Edge(cls.name, base, pure_name(cls), target, FALSE,
                 pure_name(cls) \o <<" --|> ">> \o target)]

\* the lines written for cls by the inheritance loop
BaseEdges(d, cls) ==
    [j \in 1..Len(cls.base_classes) |->
        LET base == cls.base_classes[j]
            base_is_interface == base \in Keys(d) /\ is_interface(Lookup(d, base))
            target == PartitionHead(base, "<")
        IN  Edge(cls.name, base, pure_name(cls), target, base_is_interface,
                 pure_name(cls)
                     \o (IF base_is_interface THEN <<" ..|> ">> ELSE <<" --|> ">>)
                     \o target)]

RECURSIVE InheritanceLoop(_, _)
InheritanceLoop(d, i) ==
    IF i > Len(d) THEN <<>>
    ELSE BaseEdges(d, d[i]) \o InheritanceLoop(d, i + 1)

\* any field of cls matches other_cls
FieldMatches(cls, other_cls) ==
    \E k \in 1..Len(cls.fields) :
        WordSearch(pure_name(other_cls), FieldType(cls.fields[k]))

\* the pairs (cls, other_cls) in the order of the two nested loops
PairCls(d, k)   == d[((k - 1) \div Len(d)) + 1]
PairOther(d, k) == d[((k - 1) % Len(d)) + 1]

\* the line the aggregation loop writes for the pair
AggregationEdge(cls, other_cls) ==
    Edge(cls.name, other_cls.name, pure_name(cls), pure_name(other_cls), FALSE,
         pure_name(other_cls) \o <<" *-- ">> \o pure_name(cls))

\* the aggregation loop from pair k on
RECURSIVE AggregationLoop(_, _)
AggregationLoop(d, k) ==
    IF k > Len(d) * Len(d) THEN <<>>
    ELSE (IF FieldMatches(PairCls(d, k), PairOther(d, k))
          THEN <<AggregationEdge(PairCls(d, k), PairOther(d, k))>>
          ELSE <<>>)
         \o AggregationLoop(d, k + 1)

\* the set aggregations after the aggregation loop
AggregationSet(agg) == {<<agg[i].src, agg[i].tgt>> : i \in 1..Len(agg)}

\* any method of cls matches other_cls by its return type or its joined argument types
MethodMatches(cls, other_cls) ==
    \E k \in 1..Len(cls.methods) :
        LET method == cls.methods[k]
        IN  \/ WordSearch(pure_name(other_cls), method.return_type)
            \/ WordSearch(pure_name(other_cls),
                          JoinSpace([a \in 1..Len(method.args) |-> method.args[a].type]))

\* DependencySkipped without the test of the set aggregations
DependencySkippedNoAggregation(d, cls, other_cls, aggregations, dependencies) ==
    \/ ClassEq(cls, other_cls)
    \/ \E j \in 1..Len(cls.base_classes) : cls.base_classes[j] = other_cls.name
    \/ \E j \in 1..Len(cls.base_classes) :
          /\ cls.base_classes[j] \in Keys(d)
          /\ <<pure_name(Lookup(d, cls.base_classes[j])), pure_name(other_cls)>>
                 \in dependencies

\* the condition under which the dependency loop skips the pair
DependencySkipped(d, cls, other_cls, aggregations, dependencies) ==
    \/ ClassEq(cls, other_cls)
    \/ \E j \in 1..Len(cls.base_classes) : cls.base_classes[j] = other_cls.name
    \/ <<pure_name(cls), pure_name(other_cls)>> \in aggregations
    \/ \E j \in 1..Len(cls.base_classes) :
          /\ cls.base_classes[j] \in Keys(d)
          /\ <<pure_name(Lookup(d, cls.base_classes[j])), pure_name(other_cls)>>
                 \in dependencies

\* the set dependencies while the lines written so far are written
DependencySet(written) ==
    {<<written[i].src, written[i].tgt>> : i \in 1..Len(written)}

\* the line the dependency loop writes for the pair
DependencyEdge(cls, other_cls) ==
    Edge(cls.name, other_cls.name, pure_name(cls), pure_name(other_cls), FALSE,
         pure_name(other_cls) \o <<" <.. ">> \o pure_name(cls))

\* one pair of the dependency loop
DependencyStep(d, aggregations, cls, other_cls, written) ==
    IF /\ ~DependencySkipped(d, cls, other_cls, aggregations, DependencySet(written))
       /\ MethodMatches(cls, other_cls)
    THEN Append(written, DependencyEdge(cls, other_cls))
    ELSE written

\* the dependency loop from pair k on
RECURSIVE DependencyLoop(_, _, _, _)
DependencyLoop(d, aggregations, k, written) ==
    IF k > Len(d) * Len(d) THEN written
    ELSE DependencyLoop(d, aggregations, k + 1,
             DependencyStep(d, aggregations, PairCls(d, k), PairOther(d, k),
                            written))

(***************************************************************************)
(* What output leaves in the entities: functools.cached_property stores    *)
(* the value of a derived property in the object on its first read.        *)
(***************************************************************************)
\* output reads pure_name of d[i]: as cls in the inheritance loop, as
\* other_cls in the aggregation loop, or as cls or other_cls of a pair the
\* dependency loop does not skip on its first two tests (a base looked up by
\* its fourth test is then read as cls of its pair with the deriving class)
PureNameRead(d, i) ==
    \/ d[i].base_classes # <<>>
    \/ \E k \in 1..Len(d) : d[k].fields # <<>>
    \/ \E k \in 1..Len(d) :
          /\ ~ClassEq(d[i], d[k])
          /\ \/ \A j \in 1..Len(d[i].base_classes) : d[i].base_classes[j] # d[k].name
             \/ \A j \in 1..Len(d[k].base_classes) : d[k].base_classes[j] # d[i].name

\* the names of the cached properties output reads of d[i]
PropertiesRead(d, i) ==
    (IF d[i].type = "CppClass" THEN {"is_interface"} ELSE {})
    \cup (IF d[i].type = "CppClass" /\ ~is_interface(d[i]) THEN {"is_abstract"} ELSE {})
    \cup (IF PureNameRead(d, i) THEN {"pure_name"} ELSE {})

\* StoreCached normalising the entity's name to the pure name it stores
StoreCachedInName(e, names) ==
    [e EXCEPT !.cached = @ \cup names,
              !.name = IF "pure_name" \in names THEN PartitionHead(@, "<") ELSE @]

\* cached_property.__get__: the value is stored under the property's name
StoreCached(e, names) == [e EXCEPT !.cached = @ \cup names]

(***************************************************************************)
(* Converter.output: the document.                                         *)
(***************************************************************************)
BlankLine == <<>>

RECURSIVE Flatten(_, _)
Flatten(blocks, i) ==
    IF i > Len(blocks) THEN <<>> ELSE blocks[i] \o Flatten(blocks, i + 1)

Lines(es) == [i \in 1..Len(es) |-> es[i].line]

\* a block of edge lines, followed by a blank line if any was written
Section(es) == IF es = <<>> THEN <<>> ELSE Lines(es) \o <<BlankLine>>

\* what output has written and stored once its three loops have written
\* the lines inheritance, aggregation and dependency
OutputOf(d, s, inheritance, aggregation, dependency) ==
    [document |->
         << <<"@startuml">>, BlankLine >>
         \o (IF s.title # <<>> THEN << <<"title ">> \o s.title, BlankLine >> ELSE <<>>)
         \o (IF ~s.icons_access_modifiers
             THEN << <<"skinparam classAttributeIconSize 0">>, BlankLine >> ELSE <<>>)
         \o Flatten([i \in 1..Len(d) |-> write(d[i], s.postfix_style) \o <<BlankLine>>], 1)
         \o Section(inheritance) \o Section(aggregation) \o Section(dependency)
         \o << <<"@enduml">> >>,
     edges |-> [inheritance |-> inheritance, aggregation |-> aggregation,
                dependency |-> dependency],
     classes |-> [i \in 1..Len(d) |-> StoreCached(d[i], PropertiesRead(d, i))]]

\* output once the aggregation loop has written the lines aggregation
OutputAfterAggregation(d, s, aggregation) ==
    OutputOf(d, s, InheritanceLoop(d, 1), aggregation,
             IF d = <<>> THEN <<>>
             ELSE DependencyLoop(d, AggregationSet(aggregation), 1, <<>>))

output(d, s) ==
    OutputAfterAggregation(d, s, IF d = <<>> THEN <<>> ELSE AggregationLoop(d, 1))

(***************************************************************************)
(* Inputs: declaration trees over the names Shape, Point and Circle.       *)
(* Every class body is written relative to its own name X and the two      *)
(* other names Y(X) and Z(X).                                              *)
(***************************************************************************)
n_a     == <<"a">>
n_b     == <<"b">>
n_f     == <<"f">>
n_g     == <<"g">>
n_o     == <<"o">>
n_next  == <<"n","e","x","t">>
n_all   == <<"a","l","l">>
n_count == <<"c","o","u","n","t">>
n_make  == <<"m","a","k","e">>
n_get   == <<"g","e","t">>
t_char  == <<"c","h","a","r">>
t_std   == <<"s","t","d">>
t_vector == <<"v","e","c","t","o","r">>
t_delete == <<"d","e","l","e","t","e">>

RoleY(X) == IF X = Shape THEN Circle ELSE Shape
RoleZ(X) == IF X = Point THEN Circle ELSE Point

Field(name, type_spelling, type_tokens) ==
    VarCursor("FIELD_DECL", name, type_spelling, type_tokens \o <<name>>, "PRIVATE")

Param(name, type_spelling, type_tokens) ==
    VarCursor("PARM_DECL", name, type_spelling, type_tokens \o <<name>>, "PUBLIC")

\* struct X {};
EmptyBody(X) == <<>>

\* struct X { virtual Z* f() = 0; };
InterfaceBody(X) ==
    << MethodCursor("CXX_METHOD", n_f, RoleZ(X) \o <<" ","*">>,
                    <<t_virtual, RoleZ(X), t_star, n_f, t_lparen, t_rparen, t_eq, t_zero>>,
                    "PUBLIC", <<>>) >>

\* class X : public Y { Z a; public: Z g(Z o); };
AggregatingBody(X) ==
    << BaseCursor(RoleY(X)),
       Field(n_a, RoleZ(X), <<RoleZ(X)>>),
       MethodCursor("CXX_METHOD", n_g, RoleZ(X),
                    <<RoleZ(X), n_g, t_lparen, RoleZ(X), n_o, t_rparen>>, "PUBLIC",
                    <<Param(n_o, RoleZ(X), <<RoleZ(X)>>)>>) >>

\* class X : public ::Y { protected: void g(Z o); };
DependingBody(X) ==
    << BaseCursor(t_scope \o RoleY(X)),
       MethodCursor("CXX_METHOD", n_g, t_void,
                    <<t_void, n_g, t_lparen, RoleZ(X), n_o, t_rparen>>, "PROTECTED",
                    <<Param(n_o, RoleZ(X), <<RoleZ(X)>>)>>) >>

\* struct X { X* next; Ys all; static int count; static X make();
\*            X(const Y& o) = delete; };
SelfBody(X) ==
    << Field(n_next, X \o <<" ","*">>, <<X, t_star>>),
       Field(n_all, RoleY(X) \o <<"s">>, <<RoleY(X) \o <<"s">>>>),
       VarCursor("VAR_DECL", n_count, t_int, <<t_static, t_int, n_count>>, "PUBLIC"),
       [MethodCursor("CXX_METHOD", n_make, X,
                     <<t_static, X, n_make, t_lparen, t_rparen>>, "PUBLIC", <<>>)
            EXCEPT !.is_static_method = TRUE],
       [MethodCursor("CONSTRUCTOR", X, t_void,
                     <<X, t_lparen, t_const, RoleY(X), <<"&">>, n_o, t_rparen, t_eq, t_delete>>,
                     "PUBLIC",
                     <<Param(n_o, t_const \o <<" ">> \o RoleY(X) \o <<" ","&">>,
                             <<t_const, RoleY(X), <<"&">>>>)>>)
            EXCEPT !.is_deleted = TRUE] >>

\* struct X : Y<int>, Y<char> { Y<int>* a; std::vector<Y<char>> b; void g(Z o); };
TwoBasesBody(X) ==
    << BaseCursor(Templ(RoleY(X), t_int)),
       BaseCursor(Templ(RoleY(X), t_char)),
       Field(n_a, Templ(RoleY(X), t_int) \o <<" ","*">>,
             <<RoleY(X), t_lt, t_int, t_gt, t_star>>),
       Field(n_b, t_std \o t_scope \o Templ(t_vector, Templ(RoleY(X), t_char)),
             <<t_std, t_scope, t_vector, t_lt, RoleY(X), t_lt, t_char, <<">>">>>>),
       MethodCursor("CXX_METHOD", n_g, t_void,
                    <<t_void, n_g, t_lparen, RoleZ(X), n_o, t_rparen>>, "PUBLIC",
                    <<Param(n_o, RoleZ(X), <<RoleZ(X)>>)>>) >>

\* template <class T> struct X { struct Z { Y b; }; X(T o); T get(Z o); };
\* the front-end reports the sentinel for the dependent type T
TemplateBody(X) ==
    << ClassCursor("STRUCT_DECL", RoleZ(X), RoleZ(X), TRUE,
                   << Field(n_b, RoleY(X), <<RoleY(X)>>) >>),
       MethodCursor("CONSTRUCTOR", Templ(X, t_T), t_void,
                    <<X, t_lparen, t_T, n_o, t_rparen>>, "PUBLIC",
                    <<Param(n_o, t_int, <<t_T>>)>>),
       MethodCursor("CXX_METHOD", n_get, t_int,
                    <<t_T, n_get, t_lparen, RoleZ(X), n_o, t_rparen>>, "PUBLIC",
                    <<Param(n_o, RoleZ(X), <<RoleZ(X)>>)>>) >>

\* struct X { struct Z; struct Y { int a; }; };
NestingBody(X) ==
    << ClassCursor("STRUCT_DECL", RoleZ(X), RoleZ(X), FALSE, <<>>),
       ClassCursor("STRUCT_DECL", RoleY(X), RoleY(X), TRUE,
                   << Field(n_a, t_int, <<t_int>>) >>) >>

\* struct X { virtual f(); };
\* the front-end reports the sentinel as the result type of a callable
\* declared without one
ImplicitIntBody(X) ==
    << MethodCursor("CXX_METHOD", n_f, t_int,
                    <<t_virtual, n_f, t_lparen, t_rparen>>, "PUBLIC", <<>>) >>

\* struct X { void g(T); };  with T undeclared
\* the front-end reports the sentinel for the unnamed parameter
UnresolvedBody(X) ==
    << MethodCursor("CXX_METHOD", n_g, t_void,
                    <<t_void, n_g, t_lparen, t_T, t_rparen>>, "PUBLIC",
                    <<VarCursor("PARM_DECL", <<>>, t_int, <<t_T>>, "PUBLIC")>>) >>

\* the definitions of X a file may hold at its top level
Definitions(X) ==
    {ClassCursor("STRUCT_DECL", X, X, TRUE, body) :
         body \in {EmptyBody(X), InterfaceBody(X), SelfBody(X), TwoBasesBody(X),
                   NestingBody(X), ImplicitIntBody(X), UnresolvedBody(X)}}
    \cup {ClassCursor("CLASS_DECL", X, X, TRUE, body) :
              body \in {AggregatingBody(X), DependingBody(X)}}
    \cup {ClassCursor("CLASS_TEMPLATE", Templ(X, t_T), X, TRUE, body) :
              body \in {TemplateBody(X), InterfaceBody(X)}}
    \cup {ClassCursor("ENUM_DECL", X, X, TRUE, <<>>)}

\* top-level nodes the extractor passes over: a forward declaration, and a
\* definition that comes from an included header
Undefined ==
    {ClassCursor("CLASS_DECL", Shape, Shape, FALSE, <<>>),
     [ClassCursor("STRUCT_DECL", Shape, Shape, TRUE, InterfaceBody(Shape))
          EXCEPT !.in_file = FALSE]}

TopLevel == UNION {Definitions(X) : X \in Names} \cup Undefined

\* a name is defined at most once at the top level of a translation unit
OneDefinition(nodes) ==
    \A i, j \in 1..Len(nodes) :
        (i # j /\ nodes[i].is_definition /\ nodes[j].is_definition)
            => nodes[i].spelling # nodes[j].spelling

\* the front-end keeps a base specifier only of a class that is complete: a
\* class, or a class template for a base with template arguments, defined
\* earlier in the translation unit
BasesDefined(nodes) ==
    \A i \in 1..Len(nodes) :
        \A c \in 1..Len(nodes[i].children) :
            nodes[i].children[c].kind = "CXX_BASE_SPECIFIER" =>
                LET base == RPartitionScope(nodes[i].children[c].displayname)
                IN  \E j \in 1..(i - 1) :
                        /\ nodes[j].is_definition
                        /\ nodes[j].spelling = PartitionHead(base, "<")
                        /\ nodes[j].kind # "ENUM_DECL"
                        /\ (nodes[j].kind = "CLASS_TEMPLATE")
                               = (base # PartitionHead(base, "<"))

Inputs ==
    {nodes \in UNION {[1..n -> TopLevel] : n \in 0..MaxTop} :
         OneDefinition(nodes) /\ BasesDefined(nodes)}

SettingsPool ==
    {[title |-> <<>>, icons_access_modifiers |-> FALSE, postfix_style |-> TRUE],
     [title |-> <<"U","M","L">>, icons_access_modifiers |-> TRUE, postfix_style |-> FALSE]}

NoEdges == [inheritance |-> <<>>, aggregation |-> <<>>, dependency |-> <<>>]

(***************************************************************************)
(* The converter as a state machine: Converter(filename), then translate   *)
(* (parse_classes, then output), possibly again on the same Converter.     *)
(***************************************************************************)
Init ==
    /\ tu \in Inputs
    /\ settings \in SettingsPool
    /\ classes = <<>>
    /\ next_oid = 1
    /\ document = <<>>
    /\ edges = NoEdges
    /\ pc = "new"
    /\ runs = 0
    /\ extracted = <<>>
    /\ first_document = <<>>
    /\ warned = 0
    /\ cursor = NoCursor
    /\ type_result = Returned(<<>>)

ParseClasses ==
    /\ pc \in {"new", "written"}
    /\ runs < MaxRuns
    /\ \E st \in {parse_classes(classes, next_oid, tu)} :
           /\ classes' = st.classes
           /\ next_oid' = st.next_oid
           /\ warned' = st.warned
           /\ extracted' = st.classes
           /\ pc' = IF st.exc = "none" THEN "parsed" ELSE "aborted"
    /\ UNCHANGED <<tu, settings, document, edges, runs, first_document,
                   cursor, type_result>>

Output ==
    /\ pc = "parsed"
    /\ \E o \in {output(classes, settings)} :
           /\ document' = o.document
           /\ edges' = o.edges
           /\ classes' = o.classes
           /\ first_document' = IF runs = 0 THEN o.document ELSE first_document
    /\ pc' = "written"
    /\ runs' = runs + 1
    /\ UNCHANGED <<tu, settings, next_oid, extracted, warned, cursor, type_result>>

Next == ParseClasses \/ Output

Spec == Init /\ [][Next]_vars

(***************************************************************************)
(* The type reconstructor on its own: _parse_var_type and                  *)
(* _parse_function_type are static methods, called here on one cursor      *)
(* whose reported type, name and raw tokens range over bounded sets.       *)
(***************************************************************************)
n_x == <<"x">>

t_geo_Point == t_geo \o t_scope \o Point

ReportedTypes ==
    {t_int, t_const_int, Point, t_geo_Point,
     t_std \o t_scope \o Templ(t_vector, t_geo_Point)}

TokenAlphabet == {t_int, t_const, t_static, t_attr, t_T, n_x, t_eq, t_gt, t_lparen}

t_lbrace == <<"{">>
t_rbrace == <<"}">>

\* the tokens of the declarations
\*   vector<T> x = {};   vector<T> x;   std::vector<T> x;   T x = 0;
\*   vector<T> x = T{} > T{};
DeclaredTokens ==
    { <<t_vector, t_lt, t_T, t_gt, n_x, t_eq, t_lbrace, t_rbrace>>,
      <<t_vector, t_lt, t_T, t_gt, n_x>>,
      <<t_std, t_scope, t_vector, t_lt, t_T, t_gt, n_x>>,
      <<t_T, n_x, t_eq, t_zero>>,
      <<t_T, n_x, t_eq, t_T, t_lbrace, t_rbrace, t_gt, t_T, t_lbrace, t_rbrace>> }

\* a declaration has at least one token
TokenSequences ==
    UNION {[1..n -> TokenAlphabet] : n \in 1..MaxTokens} \cup DeclaredTokens

\* a field, or a parameter, which may be unnamed
VarCursors ==
    {VarCursor(kind, name, reported, tokens, "PUBLIC") :
        kind \in {"FIELD_DECL", "PARM_DECL"}, name \in {n_x, <<>>},
        reported \in ReportedTypes, tokens \in TokenSequences}

FunctionCursors ==
    {MethodCursor("CXX_METHOD", n_x, reported, tokens, "PUBLIC", <<>>) :
        reported \in ReportedTypes, tokens \in TokenSequences}

InitType ==
    /\ cursor \in VarCursors \cup FunctionCursors
    /\ type_result = Returned(<<>>)
    /\ pc = "cursor"
    /\ tu = <<>>
    /\ settings \in {s \in SettingsPool : s.postfix_style}
    /\ classes = <<>>
    /\ next_oid = 1
    /\ document = <<>>
    /\ edges = NoEdges
    /\ runs = 0
    /\ extracted = <<>>
    /\ first_document = <<>>
    /\ warned = 0

ReconstructVar ==
    /\ pc = "cursor"
    /\ cursor.kind \notin METHOD_KINDS
    /\ type_result' = _parse_var_type(cursor)
    /\ pc' = "reconstructed"
    /\ UNCHANGED <<tu, settings, classes, next_oid, document, edges, runs,
                   extracted, first_document, warned, cursor>>

ReconstructFunction ==
    /\ pc = "cursor"
    /\ cursor.kind \in METHOD_KINDS
    /\ type_result' = _parse_function_type(cursor)
    /\ pc' = "reconstructed"
    /\ UNCHANGED <<tu, settings, classes, next_oid, document, edges, runs,
                   extracted, first_document, warned, cursor>>

NextType == ReconstructVar \/ ReconstructFunction

SpecType == InitType /\ [][NextType]_vars

(***************************************************************************)
(* Properties of the relationship loops.                                   *)
(***************************************************************************)
Written == pc = "written"

SeqRange(q) == {q[i] : i \in 1..Len(q)}

HasKey(key) == key \in Keys(classes)

\* C1: the output stage never writes an aggregation edge or a dependency
\* edge whose source and target have the same pure name.
C1_NoSelfEdge ==
    Written =>
        \A e \in SeqRange(edges.aggregation) \cup SeqRange(edges.dependency) :
            e.src # e.tgt

\* no two lines of one edge kind join the same (source, target) pure names
NoDuplicate(es) ==
    \A i, j \in 1..Len(es) :
        (es[i].src = es[j].src /\ es[i].tgt = es[j].tgt) => i = j

\* C2: within each edge kind (inheritance, aggregation, dependency) each
\* (source pure name, target pure name) pair is written at most once.
C2_EdgesDeduplicated ==
    Written =>
        /\ NoDuplicate(edges.inheritance)
        /\ NoDuplicate(edges.aggregation)
        /\ NoDuplicate(edges.dependency)

\* C3: a pair (owner, other) that has an aggregation edge never also has a
\* dependency edge, even when a method of owner matches other.
C3_AggregationExcludesDependency ==
    Written =>
        \A a \in SeqRange(edges.aggregation), e \in SeqRange(edges.dependency) :
            ~(a.src = e.src /\ a.tgt = e.tgt)

\* C3 witness: an aggregation edge was written for a pair of different
\* classes of which the owner also has a method matching the other.
C3_Witness ==
    /\ Written
    /\ \E a \in SeqRange(edges.aggregation) :
          /\ a.src # a.tgt
          /\ MethodMatches(Lookup(classes, a.user), Lookup(classes, a.other))

\* C4: if class B has a dependency edge to T and class D lists
\* B as a direct base class, with or without template-argument text, then D
\* has no dependency edge to T, whatever the insertion order of B and D.
C4_SubclassNeverRepeatsDependency ==
    Written =>
        \A e \in SeqRange(edges.dependency), D \in SeqRange(classes) :
            (/\ D.name # e.user
             /\ \E j \in 1..Len(D.base_classes) :
                   PartitionHead(D.base_classes[j], "<") = PartitionHead(e.user, "<"))
            => ~\E e2 \in SeqRange(edges.dependency) :
                   e2.user = D.name /\ e2.tgt = e.tgt

\* the base entry resolves to an entity of the model that is an interface:
\* the entity of that key or, for an entry that is no key, an entity of the
\* entry's pure name
ResolvesToInterface(d, base) ==
    IF base \in Keys(d) THEN is_interface(Lookup(d, base))
    ELSE \E i \in 1..Len(d) :
             pure_name(d[i]) = PartitionHead(base, "<") /\ is_interface(d[i])

\* the inheritance line claimed for the class and one entry of its base_classes
ClaimedBaseLine(d, cls, base) ==
    pure_name(cls)
        \o (IF ResolvesToInterface(d, base) THEN <<" ..|> ">> ELSE <<" --|> ">>)
        \o PartitionHead(base, "<")

\* C12: the inheritance lines are, in model order, one line per class and
\* entry of its base_classes, from the class's pure name to the base's pure
\* name, with the realization arrow exactly when the base resolves to an
\* entity of the model that is an interface (a base written with template
\* arguments resolving to its template) and the generalization arrow
\* otherwise, as for a base absent from the model.
C12_InheritanceEdges ==
    Written =>
        Lines(edges.inheritance) =
            Flatten([i \in 1..Len(classes) |->
                        [j \in 1..Len(classes[i].base_classes) |->
                            ClaimedBaseLine(classes, classes[i],
                                            classes[i].base_classes[j])]], 1)

(***************************************************************************)
(* Properties of the written document.                                     *)
(***************************************************************************)
\* the entity has no fields and one method, which is pure virtual
SinglePureVirtual(e) ==
    /\ e.type = "CppClass"
    /\ e.fields = <<>>
    /\ Len(e.methods) = 1
    /\ e.methods[1].is_abstract

\* the document holds a block of three lines: the header, one line of an
\* abstract method, and the closing brace
AbstractMethodBlock(header) ==
    \E i \in 1..(Len(document) - 2) :
        /\ document[i] = header
        /\ "{abstract} " \in SeqRange(document[i + 1])
        /\ document[i + 2] = <<"}">>

\* C5 (as claimed): a struct whose only member is one pure-virtual method is
\* written as an 'abstract class <name>' block with one abstract method line.
C5_SinglePureVirtualIsAbstractClass ==
    Written =>
        \A e \in SeqRange(classes) :
            SinglePureVirtual(e)
                => AbstractMethodBlock(<<"abstract ", "class ">> \o e.name \o <<" {">>)

\* C5 (amended): a struct whose only member is one pure-virtual method is
\* written as an 'interface <name>' block with one abstract method line.
C5_SinglePureVirtualIsInterface ==
    Written =>
        \A e \in SeqRange(classes) :
            SinglePureVirtual(e)
                => AbstractMethodBlock(<<"interface ">> \o e.name \o <<" {">>)

\* C5 witness: the document was written for a model holding such a struct.
C5_Witness ==
    /\ Written
    /\ \E e \in SeqRange(classes) : SinglePureVirtual(e)

\* the model of Scenario C: Shape, Point and Circle, Circle deriving from
\* Shape and holding a field of type Point
ScenarioC ==
    /\ HasKey(Shape) /\ HasKey(Point) /\ HasKey(Circle)
    /\ LET c == Lookup(classes, Circle)
       IN  /\ \E j \in 1..Len(c.base_classes) : c.base_classes[j] = Shape
           /\ \E k \in 1..Len(c.fields) : FieldType(c.fields[k]) = Point

HasLine(line) == line \in SeqRange(document)

\* C6 (as claimed): in Scenario C the document holds the lines
\* 'Shape <|-- Circle' and 'Point *-- Circle' and no dependency edge joins
\* Circle with Shape or with Point, whatever the bodies of Shape and Point.
C6_ScenarioC ==
    (Written /\ ScenarioC) =>
        /\ HasLine(Shape \o <<" <|-- ">> \o Circle)
        /\ HasLine(Point \o <<" *-- ">> \o Circle)
        /\ \A e \in SeqRange(edges.dependency) :
              {e.src, e.tgt} \notin {{Circle, Shape}, {Circle, Point}}

\* C6 (amended): in Scenario C the document holds the line
\* 'Circle ..|> Shape' if Shape is an interface (no fields, every method
\* abstract or static, which includes no members) and 'Circle --|> Shape'
\* otherwise, the line 'Point *-- Circle', and no dependency edge written
\* for the entity Circle towards the entity Shape or the entity Point.
C6_ScenarioCAsWritten ==
    (Written /\ ScenarioC) =>
        /\ HasLine(Circle
                     \o (IF is_interface(Lookup(classes, Shape))
                         THEN <<" ..|> ">> ELSE <<" --|> ">>)
                     \o Shape)
        /\ HasLine(Point \o <<" *-- ">> \o Circle)
        /\ \A e \in SeqRange(edges.dependency) :
              ~(e.user = Circle /\ e.other \in {Shape, Point})

\* C6 witness: Scenario C was written with Shape declared without members
\* and with a method of Circle that matches Point.
C6_Witness ==
    /\ Written /\ ScenarioC
    /\ Lookup(classes, Shape).methods = <<>>
    /\ Lookup(classes, Shape).fields = <<>>
    /\ MethodMatches(Lookup(classes, Circle), Lookup(classes, Point))

(***************************************************************************)
(* Properties of the type reconstructor.                                   *)
(***************************************************************************)
Reconstructed == pc = "reconstructed"

ReportedType(c) == IF c.kind \in METHOD_KINDS THEN c.result_type ELSE c.type_spelling

\* C7: for a reported type other than 'int' the reconstructor
\* returns the reported spelling after its last '::', whatever the tokens,
\* and does not fail.
C7_NonSentinelVerbatim ==
    (Reconstructed /\ ReportedType(cursor) # t_int) =>
        type_result = Returned(RPartitionScope(ReportedType(cursor)))

\* the tokens the reconstructor of fields and parameters keeps
FilteredVarTokens(c) == SelectSeq(c.tokens, LAMBDA t : ~ExcludeVar(t))

\* 0-based position of the last '>' before the bound, -1 if there is none
LastAngleBefore(tokens, bound) ==
    IF \E i \in 1..bound : tokens[i] = t_gt
    THEN (CHOOSE i \in 1..bound :
              tokens[i] = t_gt /\ \A k \in (i + 1)..bound : tokens[k] # t_gt) - 1
    ELSE -1

\* 0-based position of the declared identifier between the last '>' before
\* the bound and the bound, -1 if it is not there
DeclaredIndex(name, tokens) ==
    Index0(tokens, name, LastAngleBefore(tokens, AssignIndex(tokens)) + 1,
           AssignIndex(tokens))

\* the cursor is a field or parameter of sentinel type whose first filtered
\* token is not the sentinel keyword
SentinelVar(c) ==
    /\ c.kind \notin METHOD_KINDS
    /\ c.type_spelling = t_int
    /\ FilteredVarTokens(c) # <<>>
    /\ FilteredVarTokens(c)[1] # t_int

\* C11: for a field or parameter of sentinel type whose first filtered token
\* is not the sentinel keyword and whose declared identifier stands, after at
\* least one token, between the last '>' before the bound and the bound, the
\* reconstructor returns the tokens before the identifier joined by the
\* alphanumeric-spacing rule, scope qualifier stripped.
C11_ReconstructsUpToIdentifier ==
    (/\ Reconstructed
     /\ SentinelVar(cursor)
     /\ DeclaredIndex(cursor.displayname, FilteredVarTokens(cursor)) >= 1) =>
        type_result =
            Returned(RPartitionScope(
                JoinedType(FilteredVarTokens(cursor),
                           DeclaredIndex(cursor.displayname,
                                         FilteredVarTokens(cursor)))))

\* the filtered tokens of a callable
FilteredFunctionTokens(c) == SelectSeq(c.tokens, LAMBDA t : ~ExcludeFunction(t))

\* the type of the cursor is rebuilt from its tokens and the name boundary
\* cannot be located: no '(' after a return type for a callable, no declared
\* identifier between the last '>' and the bound for a field or parameter
BoundaryNotLocated(c) ==
    IF c.kind \in METHOD_KINDS
    THEN /\ c.result_type = t_int
         /\ FilteredFunctionTokens(c) # <<>>
         /\ FilteredFunctionTokens(c)[1] # t_int
         /\ Index0(FilteredFunctionTokens(c), t_lparen, 0,
                   Len(FilteredFunctionTokens(c))) <= 1
    ELSE /\ SentinelVar(c)
         /\ DeclaredIndex(c.displayname, FilteredVarTokens(c)) < 0

\* C13: a type reconstruction that cannot locate the name boundary, for a
\* callable's return type as for a field or a parameter, is recoverable: it
\* raises nothing, issues the warning and returns the sentinel 'int'.
C13_BoundaryFailureRecoverable ==
    (Reconstructed /\ BoundaryNotLocated(cursor)) => type_result = Warned(t_int)

(***************************************************************************)
(* Properties of the extraction and of the whole pipeline.                 *)
(***************************************************************************)
\* the class-like cursors of a tree, at any depth
RECURSIVE ClassCursors(_)
ClassCursors(nodes) ==
    UNION {{nodes[i]} \cup ClassCursors(nodes[i].children) :
               i \in {k \in 1..Len(nodes) : nodes[k].kind \in CLASS_KINDS}}

\* C8: every entry of the model corresponds to a class-like node that is a
\* definition; a forward declaration creates no entry, at the top level or
\* nested in a parsed class.
C8_OnlyDefinitionsInModel ==
    pc \in {"parsed", "written"} =>
        \A e \in SeqRange(classes) :
            \E n \in ClassCursors(tu) :
                n.displayname = e.name /\ n.is_definition /\ n.in_file

\* C9: output leaves the model as extraction left it: the same keys in the
\* same order, and every entity's name, base_classes, fields and methods.
C9_OutputKeepsModel ==
    Written =>
        /\ Len(classes) = Len(extracted)
        /\ \A i \in 1..Len(classes) :
              /\ classes[i].type = extracted[i].type
              /\ DataFields(classes[i]) = DataFields(extracted[i])

\* C9 witness: output ran on a model of several entities and stored a
\* derived property in one of them.
C9_Witness ==
    /\ Written
    /\ Len(classes) >= 2
    /\ \E i \in 1..Len(classes) : classes[i].cached # extracted[i].cached

\* C10: a second translate on the same Converter, tree and settings writes
\* the document the first one wrote.
C10_SecondRunSameDocument ==
    (Written /\ runs = 2) => document = first_document

====
